---- MODULE Spec2Model ----
(***************************************************************************)
(* Model of the native launcher, appsrc/tasks/launch/native.js: candidate  *)
(* stat probes (computeWeight), scoring (computeScore), depth              *)
(* (computeDepth), the three sortBy passes of launch(), command-line       *)
(* quoting (escape), tokenisation (shellQuote.parse as called by sh) and   *)
(* the child process outcome.                                              *)
(*                                                                         *)
(* Paths, arguments and command lines are strings; a character of a string *)
(* is read with SubSeq.  POSIX path conventions (path.sep = "/") are used  *)
(* throughout.                                                             *)
(***************************************************************************)
EXTENDS Integers, Sequences, FiniteSets, TLC

VARIABLES
  \* ---- one launch() call -------------------------------------------------
  executables,   \* cave.executables: the declared relative paths, in order
  pc,            \* where the flow of launch() stands
  probe,         \* per input index: the probe's state and what sf.stat gave
  output,        \* computeWeight's local `output` array
  candidates,    \* launch's `candidates` after the three sorts
  platform,      \* os.platform() as read by launchExecutable
  isolateApps,   \* opts.preferences.isolateApps as read by launchExecutable
  exePath,       \* launch's `exePath` as passed to launchExecutable
  args,          \* launch's `args` as passed to launchExecutable
  fullExec,      \* launchExecutable's `fullExec` (darwin app bundle)
  shExePath,     \* first parameter of sh
  fullCommand,   \* second parameter of sh
  spawned,       \* what sh handed to spawn: [command, args, cwd], or NoSpawn
  outcome,       \* what launch() resolved or rejected with
  \* ---- a pure function applied to one input ------------------------------
  fnPc, fnIn, fnOut

launchVars == <<executables, pc, probe, output, candidates, platform,
                isolateApps, exePath, args, fullExec, shExePath, fullCommand,
                spawned, outcome>>
fnVars == <<fnPc, fnIn, fnOut>>
vars == <<executables, pc, probe, output, candidates, platform,
          isolateApps, exePath, args, fullExec, shExePath, fullCommand,
          spawned, outcome, fnPc, fnIn, fnOut>>

-----------------------------------------------------------------------------
(* Bounds and input domains *)

MaxExecs == 3     \* declared executables of one install record
MaxProbes == 5    \* candidates of one computeWeight call taken alone
MaxFrags == 3     \* file-name pieces of a path given to computeScore
MaxArgLen == 3    \* characters of an argument given to escape

\* pathmaker.appPath(cave): the absolute install root
AppPath == "/app"

\* the CFBundleExecutable field of the bundle's metadata
BundleExecutable == "Game"

\* relative paths an install record declares
Catalogue ==
  {"game.exe", "unins000.exe", "bin/run.sh", "game.jar", "Game.app", "b\\\\.jar"}

Platforms == {"darwin", "linux"}
ExitCodes == {0, 1}
Sizes == {0, 1}   \* an empty file and a non-empty one
PlutilResults == {"failed", "unparsable", "nofield", "ok"}

\* what sf.stat settles with: a rejection, or stats with a size
StatResults == {[ok |-> FALSE, size |-> 0]} \cup {[ok |-> TRUE, size |-> z] : z \in Sizes}

-----------------------------------------------------------------------------
(* Strings *)

DQ == "\""
BS == "\\"
SP == " "

Ch(s, i) == IF i >= 1 /\ i <= Len(s) THEN SubSeq(s, i, i) ELSE ""

\* (an operator that reads an argument many times first binds its value:
\* `\E v \in {s}` for a predicate, `CHOOSE r \in {F(v) : v \in {s}} : TRUE`
\* for a value)

StartsWith(s, p) == \E v \in {s} : Len(p) <= Len(v) /\ SubSeq(v, 1, Len(p)) = p

EndsWith(s, p) ==
  \E v \in {s} : Len(p) <= Len(v) /\ SubSeq(v, Len(v) - Len(p) + 1, Len(v)) = p

\* s has p at position i
HasAt(s, p, i) == i >= 1 /\ i + Len(p) - 1 <= Len(s) /\ SubSeq(s, i, i + Len(p) - 1) = p

Contains(s, p) == \E v \in {s} : \E i \in 1..(Len(v) - Len(p) + 1) : HasAt(v, p, i)

LowerCh(c) ==
  CASE c = "A" -> "a" [] c = "B" -> "b" [] c = "C" -> "c" [] c = "D" -> "d"
    [] c = "E" -> "e" [] c = "F" -> "f" [] c = "G" -> "g" [] c = "H" -> "h"
    [] c = "I" -> "i" [] c = "J" -> "j" [] c = "K" -> "k" [] c = "L" -> "l"
    [] c = "M" -> "m" [] c = "N" -> "n" [] c = "O" -> "o" [] c = "P" -> "p"
    [] c = "Q" -> "q" [] c = "R" -> "r" [] c = "S" -> "s" [] c = "T" -> "t"
    [] c = "U" -> "u" [] c = "V" -> "v" [] c = "W" -> "w" [] c = "X" -> "x"
    [] c = "Y" -> "y" [] c = "Z" -> "z" [] OTHER -> c

RECURSIVE LowerFrom(_, _)
LowerFrom(s, i) == IF i > Len(s) THEN "" ELSE LowerCh(Ch(s, i)) \o LowerFrom(s, i + 1)

\* String.prototype.toLowerCase, and what the /i flag compares
toLowerCase(s) == LowerFrom(s, 1)

\* the strings over alphabet A of length at most n
RECURSIVE StringsUpTo(_, _)
StringsUpTo(A, n) ==
  IF n = 0 THEN {""}
  ELSE LET shorter == StringsUpTo(A, n - 1)
       IN  shorter \cup {s \o c : s \in shorter, c \in A}

\* Array.prototype.join(sep) of a sequence of strings
RECURSIVE JoinFrom(_, _, _)
JoinFrom(xs, sep, i) ==
  IF i > Len(xs) THEN ""
  ELSE IF i = Len(xs) THEN xs[i]
  ELSE xs[i] \o sep \o JoinFrom(xs, sep, i + 1)

Join(xs, sep) == JoinFrom(xs, sep, 1)

-----------------------------------------------------------------------------
(* escape (native.js:45-47): wrap in double quotes, backslash-escape every  *)
(* double quote; nothing else is escaped.                                   *)

RECURSIVE ReplaceQuotesFrom(_, _)
ReplaceQuotesFrom(s, i) ==
  IF i > Len(s) THEN ""
  ELSE (IF Ch(s, i) = DQ THEN BS \o DQ ELSE Ch(s, i)) \o ReplaceQuotesFrom(s, i + 1)

escape(arg) == DQ \o ReplaceQuotesFrom(arg, 1) \o DQ

-----------------------------------------------------------------------------
(* shellQuote.parse as sh calls it (native.js:27), on command lines made of *)
(* double quotes, backslashes, blanks and ordinary characters (no single    *)
(* quote, "$", "#", glob or control operator occurs in the model's inputs). *)
(* A chunker regex cuts the line into chunks; a scanner unquotes each one.  *)

IsBlank(c) == c = SP

\* one unit of the chunker's bare-word pattern at position p: its length
\* (2 for backslash + quote/blank, 1 for any other non-blank non-quote), or 0
BareUnit(s, p) ==
  IF p > Len(s) THEN 0
  ELSE IF Ch(s, p) = BS /\ p + 1 <= Len(s) /\ (Ch(s, p + 1) = DQ \/ IsBlank(Ch(s, p + 1)))
       THEN 2
  ELSE IF Ch(s, p) # DQ /\ ~IsBlank(Ch(s, p)) THEN 1
  ELSE 0

\* the chunker's double-quoted pattern "((\\"|[^"])*?)" with the opening
\* quote before position i: the position of the closing quote the regex
\* engine settles on (lazy, alternatives in order, backtracking), or 0
RECURSIVE DQClose(_, _)
DQClose(s, i) ==
  IF i > Len(s) THEN 0
  ELSE IF Ch(s, i) = DQ THEN i
  ELSE CHOOSE close \in
         {IF viaEscapedQuote # 0 THEN viaEscapedQuote ELSE DQClose(s, i + 1)
            : viaEscapedQuote \in
                {IF Ch(s, i) = BS /\ Ch(s, i + 1) = DQ THEN DQClose(s, i + 2) ELSE 0}} : TRUE

\* the end (exclusive) of the greedy run of bare words and quoted parts at p
RECURSIVE ChunkEnd(_, _)
ChunkEnd(s, p) ==
  CHOOSE e \in
    {IF unit > 0 THEN ChunkEnd(s, pos + unit)
     ELSE IF Ch(s, pos) = DQ
       THEN CHOOSE e2 \in
              {IF close # 0 THEN ChunkEnd(s, close + 1) ELSE pos
                 : close \in {DQClose(s, pos + 1)}} : TRUE
     ELSE pos
       : pos \in {p}, unit \in {BareUnit(s, p)}} : TRUE

\* s.match(chunker).filter(Boolean): the non-empty matches, left to right
RECURSIVE ChunksFrom(_, _)
ChunksFrom(s, p) ==
  IF p > Len(s) THEN <<>>
  ELSE CHOOSE chunks \in
         {IF e = pos THEN ChunksFrom(s, pos + 1)
          ELSE <<SubSeq(s, pos, e - 1)>> \o ChunksFrom(s, e)
            : pos \in {p}, e \in {ChunkEnd(s, p)}} : TRUE

\* the scanner: inside double quotes a backslash escapes only a double quote
\* or a backslash; outside quotes a backslash escapes the next character
RECURSIVE Scan(_, _, _, _)
Scan(s, i, quote, esc) ==
  IF i > Len(s) THEN ""
  ELSE LET c == Ch(s, i) IN
    IF esc THEN c \o Scan(s, i + 1, quote, FALSE)
    ELSE IF quote THEN
      IF c = DQ THEN Scan(s, i + 1, FALSE, FALSE)
      ELSE IF c = BS THEN
        LET c2 == Ch(s, i + 1)
        IN  (IF c2 = DQ \/ c2 = BS THEN c2 ELSE BS \o c2) \o Scan(s, i + 2, TRUE, FALSE)
      ELSE c \o Scan(s, i + 1, TRUE, FALSE)
    ELSE IF c = DQ THEN Scan(s, i + 1, TRUE, FALSE)
    ELSE IF c = BS THEN Scan(s, i + 1, FALSE, TRUE)
    ELSE c \o Scan(s, i + 1, FALSE, FALSE)

shellQuoteParse(s) ==
  CHOOSE tokens \in
    {[k \in 1..Len(chunks) |-> Scan(chunks[k], 1, FALSE, FALSE)]
       : chunks \in {ChunksFrom(v, 1) : v \in {s}}} : TRUE

-----------------------------------------------------------------------------
(* Node's path module, POSIX flavour, as used by native.js *)

SEP == "/"

\* String.prototype.split(sep) for a one-character separator
RECURSIVE SplitFrom(_, _, _, _)
SplitFrom(s, sep, i, cur) ==
  IF i > Len(s) THEN <<cur>>
  ELSE IF Ch(s, i) = sep THEN <<cur>> \o SplitFrom(s, sep, i + 1, "")
  ELSE SplitFrom(s, sep, i + 1, cur \o Ch(s, i))

Split(s, sep) == SplitFrom(s, sep, 1, "")

\* normalizeArray: drop "" and ".", resolve ".." against the part before it
RECURSIVE NormalizeParts(_, _, _, _)
NormalizeParts(parts, i, acc, allowAboveRoot) ==
  IF i > Len(parts) THEN acc
  ELSE LET part == parts[i] IN
    IF part = "" \/ part = "." THEN NormalizeParts(parts, i + 1, acc, allowAboveRoot)
    ELSE IF part = ".." THEN
      IF Len(acc) > 0 /\ acc[Len(acc)] # ".."
        THEN NormalizeParts(parts, i + 1, SubSeq(acc, 1, Len(acc) - 1), allowAboveRoot)
      ELSE IF allowAboveRoot
        THEN NormalizeParts(parts, i + 1, Append(acc, ".."), allowAboveRoot)
      ELSE NormalizeParts(parts, i + 1, acc, allowAboveRoot)
    ELSE NormalizeParts(parts, i + 1, Append(acc, part), allowAboveRoot)

pathNormalize(path) ==
  CHOOSE r \in
    {LET isAbsolute == Ch(p, 1) = SEP
         trailingSlash == Len(p) > 0 /\ Ch(p, Len(p)) = SEP
     IN  CHOOSE q \in
           {(IF isAbsolute THEN SEP ELSE "") \o
              (IF body = "" THEN (IF isAbsolute THEN "" ELSE ".")
               ELSE IF trailingSlash THEN body \o SEP ELSE body)
            : body \in {Join(NormalizeParts(parts, 1, <<>>, ~isAbsolute), SEP)
                         : parts \in {Split(p, SEP)}}} : TRUE
     : p \in {path}} : TRUE

\* path.join of a sequence of strings
pathJoin(parts) ==
  CHOOSE r \in
    {pathNormalize(joined) : joined \in
      {Join(nonEmpty, SEP) : nonEmpty \in {SelectSeq(parts, LAMBDA x : x # "")}}} : TRUE

\* index of the last separator at or before position i, 0 if none
RECURSIVE LastSepUpTo(_, _)
LastSepUpTo(s, i) ==
  IF i < 1 THEN 0 ELSE IF Ch(s, i) = SEP THEN i ELSE LastSepUpTo(s, i - 1)

\* position of the last character of s that is not a trailing separator
RECURSIVE TrimmedLen(_, _)
TrimmedLen(s, n) == IF n > 1 /\ Ch(s, n) = SEP THEN TrimmedLen(s, n - 1) ELSE n

\* path.dirname: skip trailing separators, cut at the last separator that
\* is not the first character
pathDirname(p) ==
  LET hasRoot == Ch(p, 1) = SEP
      n == TrimmedLen(p, Len(p))
      k == LastSepUpTo(p, n - 1)
  IN  IF Len(p) = 0 THEN "."
      ELSE IF k < 2 THEN (IF hasRoot THEN SEP ELSE ".")
      ELSE IF hasRoot /\ k = 2 THEN SEP \o SEP
      ELSE SubSeq(p, 1, k - 1)

-----------------------------------------------------------------------------
(* computeScore (native.js:79-114) *)

\* regex /<a>.*<b>$/ on s
MatchThenEnd(s, a, b) ==
  \E v \in {s} :
    /\ EndsWith(v, b)
    /\ \E i \in 1..Len(v) : HasAt(v, a, i) /\ i + Len(a) <= Len(v) - Len(b) + 1

\* the six tests, on the path and on its lower-case form (the /i flag)
IsUninstaller(lower) == MatchThenEnd(lower, "unins", ".exe")
IsKickBin(lower) == StartsWith(lower, "kick.bin")
IsNwjc(lower) == EndsWith(lower, "nwjc.exe")
IsDxWebSetup(lower) == EndsWith(lower, "dxwebsetup.exe")
IsVcRedist(lower) == MatchThenEnd(lower, "vcredist", ".exe")
IsSharedLib(path) == Contains(path, ".so") \/ Contains(path, ".dylib")
IsShellScript(path) == Contains(path, ".sh")

\* a variant of the scoring rules in which the shell-script bonus is 50
scoreWithLargeBonus(path, lower) ==
  LET s1 == 100 - (IF IsUninstaller(lower) THEN 50 ELSE 0)
      s2 == s1 - (IF IsKickBin(lower) THEN 50 ELSE 0)
      s3 == s2 - (IF IsNwjc(lower) THEN 20 ELSE 0)
      s4 == IF IsDxWebSetup(lower) \/ IsVcRedist(lower) \/ IsSharedLib(path) THEN 0 ELSE s3
  IN  s4 + (IF IsShellScript(path) THEN 50 ELSE 0)

\* the local `score` of the loop body, rule after rule in source order
scoreRules(path, lower) ==
  LET s0 == 100
      s1 == IF IsUninstaller(lower) THEN s0 - 50 ELSE s0
      s2 == IF IsKickBin(lower) THEN s1 - 50 ELSE s1
      s3 == IF IsNwjc(lower) THEN s2 - 20 ELSE s2
      s4 == IF IsDxWebSetup(lower) THEN 0 ELSE s3
      s5 == IF IsVcRedist(lower) THEN 0 ELSE s4
      s6 == IF IsSharedLib(path) THEN 0 ELSE s5
      s7 == IF IsShellScript(path) THEN s6 + 20 ELSE s6
  IN  s7

score(path) ==
  CHOOSE r \in {scoreRules(p, lower) : p \in {path}, lower \in {toLowerCase(path)}} : TRUE

\* the scores of the catalogue's paths, computed once
CatalogueScore == [p \in Catalogue |-> score(p)]

scoreOf(path) == IF path \in Catalogue THEN CatalogueScore[path] ELSE score(path)

\* exe.score = score
withScore(exe) == CHOOSE r \in {("score" :> scoreOf(e.path)) @@ e : e \in {exe}} : TRUE

\* every candidate gets exe.score; only those with score > 0 are pushed
computeScore(execs) ==
  CHOOSE out \in
    {SelectSeq(scored, LAMBDA exe : exe.score > 0) : scored \in
      {[k \in 1..Len(given) |-> withScore(given[k])] : given \in {execs}}} : TRUE

-----------------------------------------------------------------------------
(* computeDepth (native.js:71-77) *)

depth(path) == Len(Split(pathNormalize(path), SEP))

\* the depths of the catalogue's paths, computed once
CatalogueDepth == [p \in Catalogue |-> depth(p)]

depthOf(path) == IF path \in Catalogue THEN CatalogueDepth[path] ELSE depth(path)

computeDepth(execs) ==
  CHOOSE out \in
    {[k \in 1..Len(given) |-> ("depth" :> depthOf(given[k].path)) @@ given[k]]
       : given \in {execs}} : TRUE

-----------------------------------------------------------------------------
(* sortBy (underscore, through `underline`): ascending by the criteria     *)
(* computed for the elements; equal criteria keep their order (the         *)
(* comparator falls back to the index)                                      *)

sortBy(xs, criteria) ==
  LET before(j, k) ==
        criteria[j] < criteria[k] \/ (criteria[j] = criteria[k] /\ j < k)
      place(k) == 1 + Cardinality({j \in 1..Len(xs) : before(j, k)})
  IN  [p \in 1..Len(xs) |-> xs[CHOOSE k \in 1..Len(xs) : place(k) = p]]

\* the criteria of the three sorts: (x) => -x.weight, -x.score, x.depth
byWeightDesc(xs) == [k \in 1..Len(xs) |-> 0 - xs[k].weight]
byScoreDesc(xs) == [k \in 1..Len(xs) |-> 0 - xs[k].score]
byDepthAsc(xs) == [k \in 1..Len(xs) |-> xs[k].depth]

\* a ranking that sorts on depth first and on weight last
rankDepthFirst(execs) ==
  CHOOSE ranked \in
    {sortBy(byScore, byWeightDesc(byScore)) : byScore \in
      {sortBy(byDepth, byScoreDesc(byDepth)) : byDepth \in
        {sortBy(given, byDepthAsc(given)) : given \in {execs}}}} : TRUE

\* the three sorts of launch (native.js:197-203): by -weight, then by -score,
\* then by depth, each applied to the result of the one before
rank(execs) ==
  CHOOSE ranked \in
    {sortBy(byScore, byDepthAsc(byScore)) : byScore \in
      {sortBy(byWeight, byScoreDesc(byWeight)) : byWeight \in
        {sortBy(given, byWeightDesc(given)) : given \in {execs}}}} : TRUE

-----------------------------------------------------------------------------
(* computeWeight (native.js:49-69) *)

Concurrency == 4

\* a variant of the probe body that tests the size instead of the stats
pushIfNonEmpty(out, exe, stats) ==
  IF stats.ok /\ stats.size > 0 THEN Append(out, ("weight" :> stats.size) @@ exe) ELSE out

\* the end of the probe body f: if (stats) { exe.weight = ...; output.push(exe) }
pushIfStat(out, exe, stats) ==
  IF stats.ok THEN Append(out, ("weight" :> stats.size) @@ exe) ELSE out

-----------------------------------------------------------------------------
(* launch after the sorts, launchExecutable and sh (native.js:21-43,        *)
(* 116-182, 218-226)                                                        *)

isAppBundle(path) ==
  \E lower \in {toLowerCase(path)} : EndsWith(lower, ".app") \/ EndsWith(lower, ".app/")

isJar(path) == EndsWith(toLowerCase(path), ".jar")

\* exePath and args as launch hands them to launchExecutable for the chosen
\* relative path: the joined path, or java -jar <joined path> for a .jar
launchPlan(relPath) ==
  CHOOSE plan \in
    {[chosen |-> joined,
      exePath |-> IF isJar(joined) THEN "java" ELSE joined,
      args |-> IF isJar(joined) THEN <<"-jar", joined>> ELSE <<>>]
       : joined \in {pathJoin(<<AppPath, relPath>>)}} : TRUE

\* getFullExec's result when the metadata names the executable
fullExecOf(bundle) == pathJoin(<<bundle, "Contents", "MacOS", BundleExecutable>>)

sandboxProfilePath == pathJoin(<<AppPath, ".itch", "isolate-app.sb">>)

\* args.map((x) => escape(x)).join(' ')
argStringOf(as) == Join([k \in 1..Len(as) |-> escape(as[k])], SP)

\* the command line of the plain branch (native.js:176-179)
plainCommand(exe, as) ==
  CHOOSE cmd \in
    {escape(exe) \o (IF Len(argString) > 0 THEN SP \o argString ELSE "")
       : argString \in {argStringOf(as)}} : TRUE

\* the command line of the app bundle branch (native.js:156)
bundleCommand(full, as) == escape(full) \o SP \o argStringOf(as)

\* the command line of the isolated branch (native.js:170)
sandboxCommand(profile, cmd) == "sandbox-exec -f " \o escape(profile) \o SP \o cmd \o "}"

\* the plans and command lines of the catalogue's paths, computed once
CataloguePlan == [p \in Catalogue |-> launchPlan(p)]

planOf(relPath) ==
  IF relPath \in Catalogue THEN CataloguePlan[relPath] ELSE launchPlan(relPath)

CatalogueCommands ==
  UNION {LET plan == CataloguePlan[p]
             cmd == bundleCommand(fullExecOf(plan.exePath), plan.args)
         IN  {plainCommand(plan.exePath, plan.args), cmd,
              sandboxCommand(sandboxProfilePath, cmd)} : p \in Catalogue}

CatalogueTokens == [c \in CatalogueCommands |-> shellQuoteParse(c)]

tokensOf(command) ==
  IF command \in CatalogueCommands THEN CatalogueTokens[command]
  ELSE shellQuoteParse(command)

\* what sh hands to spawn (native.js:24-36)
shSpawn(exe, command) ==
  CHOOSE r \in
    {[command |-> IF Len(tokens) > 0 THEN Head(tokens) ELSE "",
      args |-> IF Len(tokens) > 0 THEN Tail(tokens) ELSE <<>>,
      cwd |-> pathDirname(exe)] : tokens \in {tokensOf(command)}} : TRUE

-----------------------------------------------------------------------------
(* Values of the variables a specification does not use *)

NoSpawn == [command |-> "", args |-> <<>>, cwd |-> ""]
NoOutcome == [kind |-> "none", reason |-> "", exePath |-> "", error |-> "", code |-> 0]
NoResult == [none |-> TRUE]

LaunchIdle ==
  /\ executables = <<>>
  /\ pc = "idle"
  /\ probe = <<>>
  /\ output = <<>>
  /\ candidates = <<>>
  /\ platform = ""
  /\ isolateApps = FALSE
  /\ exePath = ""
  /\ args = <<>>
  /\ fullExec = ""
  /\ shExePath = ""
  /\ fullCommand = ""
  /\ spawned = NoSpawn
  /\ outcome = NoOutcome

FnIdle == fnPc = "idle" /\ fnIn = "" /\ fnOut = NoResult

-----------------------------------------------------------------------------
(* computeScore applied to one candidate path *)

\* pieces of file names the scoring rules react to, and neutral ones
ScoreFragments ==
  {"game", "unins", "kick.bin", "nwjc.exe", "dxwebsetup.exe", "vcredist",
   ".exe", ".EXE", ".so", ".dylib", ".sh", "/"}

ScorePaths == StringsUpTo(ScoreFragments, MaxFrags) \ {""}

ScoreInit ==
  /\ fnPc = "path"
  /\ fnIn \in ScorePaths
  /\ fnOut = NoResult
  /\ LaunchIdle

ApplyScore ==
  /\ fnPc = "path"
  /\ fnPc' = "scored"
  /\ fnOut' = [exe |-> withScore([path |-> fnIn]),
               kept |-> computeScore(<<[path |-> fnIn]>>)]
  /\ UNCHANGED <<fnIn, launchVars>>

SpecScore == ScoreInit /\ [][ApplyScore]_vars

\* the rules that set the score to 0 (native.js:94-102)
ForcedToZero(path) ==
  \/ IsDxWebSetup(toLowerCase(path))
  \/ IsVcRedist(toLowerCase(path))
  \/ IsSharedLib(path)

\* C3: a path that matches a force-to-0 rule ends with score 0 and is dropped
\* from computeScore's output, whatever additive rule it also matches.
C3_ForceZeroPriority ==
  (fnPc = "scored" /\ ForcedToZero(fnIn)) =>
    (fnOut.exe.score = 0 /\ fnOut.kept = <<>>)

\* C4 as stated: the score computeScore assigns lies in the closed range
\* [0, 100].
C4_ScoreIn0To100 ==
  fnPc = "scored" => (fnOut.exe.score >= 0 /\ fnOut.exe.score <= 100)

\* C4 as amended: the score computeScore assigns lies in the closed range
\* [-20, 120] (three stacked penalties below, the shell-script bonus above),
\* and a candidate that is kept has a score in [1, 120].
C4_ScoreInRange ==
  fnPc = "scored" =>
    /\ fnOut.exe.score >= -20 /\ fnOut.exe.score <= 120
    /\ \A k \in 1..Len(fnOut.kept) : fnOut.kept[k].score >= 1 /\ fnOut.kept[k].score <= 120

\* a shell script without penalties has been scored: base 100 plus the bonus
C4_BonusScored == fnPc = "scored" /\ fnOut.exe.score = 120 /\ Len(fnOut.kept) = 1

-----------------------------------------------------------------------------
(* escape followed by shellQuote.parse, applied to one argument *)

ArgAlphabet == {"a", DQ, BS, SP}

EscapeInit ==
  /\ fnPc = "arg"
  /\ fnIn \in StringsUpTo(ArgAlphabet, MaxArgLen)
  /\ fnOut = NoResult
  /\ LaunchIdle

ApplyEscape ==
  /\ fnPc = "arg"
  /\ fnPc' = "escaped"
  /\ fnOut' = [escaped |-> escape(fnIn), tokens |-> <<>>]
  /\ UNCHANGED <<fnIn, launchVars>>

ApplyParse ==
  /\ fnPc = "escaped"
  /\ fnPc' = "parsed"
  /\ fnOut' = [fnOut EXCEPT !.tokens = shellQuoteParse(fnOut.escaped)]
  /\ UNCHANGED <<fnIn, launchVars>>

EscapeNext == ApplyEscape \/ ApplyParse

SpecEscape == EscapeInit /\ [][EscapeNext]_vars

\* C8: an argument that contains a double quote, escaped and then parsed by
\* the tokenizer, comes back as exactly one token equal to the argument.
C8_QuotingRoundTrip ==
  (fnPc = "parsed" /\ Contains(fnIn, DQ)) => fnOut.tokens = <<fnIn>>

-----------------------------------------------------------------------------
(* One launch() call (native.js:184-229) *)

\* sequences of distinct catalogue paths
ExecutableLists ==
  UNION {{xs \in [1..n -> Catalogue] : \A i, j \in 1..n : i # j => xs[i] # xs[j]}
         : n \in 0..MaxExecs}

\* a variant whose error carries no reason code
FailureWithoutReason(reason, error) ==
  [kind |-> "error", reason |-> "", exePath |-> "", error |-> error, code |-> 0]

\* a thrown Error, with the reason code attached to it if any (native.js:207-209)
Failure(reason, error) ==
  [kind |-> "error", reason |-> reason, exePath |-> "", error |-> error, code |-> 0]

\* sh after spawn returns (native.js:38-42)
shOutcome(exe, code) ==
  IF code # 0
    THEN [kind |-> "crash", reason |-> "", exePath |-> exe,
          error |-> "process exited with code " \o ToString(code), code |-> code]
    ELSE [kind |-> "ok", reason |-> "", exePath |-> "",
          error |-> "child completed successfully", code |-> code]

LaunchInit ==
  /\ executables \in ExecutableLists
  /\ pc = "start"
  /\ probe = <<>>
  /\ output = <<>>
  /\ candidates = <<>>
  /\ platform = ""
  /\ isolateApps = FALSE
  /\ exePath = ""
  /\ args = <<>>
  /\ fullExec = ""
  /\ shExePath = ""
  /\ fullCommand = ""
  /\ spawned = NoSpawn
  /\ outcome = NoOutcome

\* launch up to `await computeWeight`: one candidate object per declared path;
\* Promise.map starts the first `concurrency` probes and queues the rest
StartProbes ==
  /\ pc = "start"
  /\ pc' = "weighing"
  /\ probe' = [i \in 1..Len(executables) |->
                 [st |-> IF i <= Concurrency THEN "inflight" ELSE "queued", size |-> 0]]
  /\ output' = <<>>
  /\ UNCHANGED <<executables, candidates, platform, isolateApps, exePath, args,
                 fullExec, shExePath, fullCommand, spawned, outcome, fnVars>>

Queued == {i \in DOMAIN probe : probe[i].st = "queued"}

\* sf.stat of probe i settles: the rest of f runs, then Promise.map starts one
\* queued probe, if any (which one is the library's choice)
ProbeDone(i) ==
  /\ pc = "weighing"
  /\ probe[i].st = "inflight"
  /\ \E stats \in StatResults :
     \E next \in (IF Queued = {} THEN {0} ELSE Queued) :
       /\ output' = pushIfStat(output, [idx |-> i, path |-> executables[i]], stats)
       /\ probe' = [k \in DOMAIN probe |->
                      IF k = i THEN [st |-> IF stats.ok THEN "ok" ELSE "failed",
                                     size |-> stats.size]
                      ELSE IF k = next THEN [st |-> "inflight", size |-> 0]
                      ELSE probe[k]]
  /\ UNCHANGED <<executables, pc, candidates, platform, isolateApps, exePath, args,
                 fullExec, shExePath, fullCommand, spawned, outcome, fnVars>>

AllProbed == \A i \in DOMAIN probe : probe[i].st \in {"ok", "failed"}

\* computeWeight returns `output`; computeScore, computeDepth, the three sorts
Rank ==
  /\ pc = "weighing"
  /\ AllProbed
  /\ pc' = "ranked"
  /\ \E scored \in {computeScore(output)} :
     \E deep \in {computeDepth(scored)} :
       candidates' = rank(deep)
  /\ probe' = <<>>
  /\ output' = <<>>
  /\ UNCHANGED <<executables, platform, isolateApps, exePath, args,
                 fullExec, shExePath, fullCommand, spawned, outcome, fnVars>>

\* sh(exe, command): parse, spawn, wait for the child
CallSh(exe, command) ==
  /\ shExePath' = exe
  /\ fullCommand' = command
  /\ spawned' = shSpawn(exe, command)
  /\ pc' = "running"

\* launchExecutable (native.js:146-182) up to its first await: the app
\* bundle branch awaits plutil, the plain branch goes straight to sh
LaunchExecutable(exe, as) ==
  \E pf \in Platforms :
    /\ platform' = pf
    /\ IF pf = "darwin" /\ isAppBundle(exe)
         THEN /\ \E iso \in BOOLEAN : isolateApps' = iso
              /\ pc' = "plutil"
              /\ UNCHANGED <<shExePath, fullCommand, spawned>>
         ELSE /\ isolateApps' = isolateApps
              /\ \E cmd \in {plainCommand(exe, as)} : CallSh(exe, cmd)

\* the empty check, the choice of candidates[0], the .jar substitution, and
\* launchExecutable up to its first await
Launch ==
  /\ pc = "ranked"
  /\ IF Len(candidates) = 0
       THEN /\ outcome' = Failure("game.install.no_executables_found",
                                  "After weighing/sorting, no executables left")
            /\ pc' = "done"
            /\ UNCHANGED <<platform, isolateApps, exePath, args,
                           shExePath, fullCommand, spawned>>
       ELSE \E plan \in {planOf(candidates[1].path)} :
              /\ exePath' = plan.exePath
              /\ args' = plan.args
              /\ outcome' = outcome
              /\ LaunchExecutable(plan.exePath, plan.args)
  /\ UNCHANGED <<executables, probe, output, candidates, fullExec, fnVars>>

\* getFullExec after plutil exits (native.js:130-143), then the rest of the
\* app bundle branch up to the next await
PlutilExit ==
  /\ pc = "plutil"
  /\ \E r \in PlutilResults :
       IF r # "ok"
         THEN /\ outcome' = Failure("", CASE r = "failed" -> "plutil failed"
                                          [] r = "unparsable" -> "invalid app bundle"
                                          [] OTHER -> "path must be a string")
              /\ pc' = "done"
              /\ UNCHANGED <<fullExec, shExePath, fullCommand, spawned>>
         ELSE \E full \in {fullExecOf(exePath)} :
              \E cmd \in {bundleCommand(full, args)} :
                /\ fullExec' = full
                /\ outcome' = outcome
                /\ IF isolateApps
                     THEN /\ pc' = "writing"
                          /\ UNCHANGED <<shExePath, fullCommand, spawned>>
                     ELSE CallSh(exePath, cmd)
  /\ UNCHANGED <<executables, probe, output, candidates, platform, isolateApps,
                 exePath, args, fnVars>>

\* sf.writeFile of the sandbox profile settles (native.js:168-170)
SandboxWritten ==
  /\ pc = "writing"
  /\ \E written \in BOOLEAN :
       IF written
         THEN /\ \E cmd \in {bundleCommand(fullExec, args)} :
                 \E wrapped \in {sandboxCommand(sandboxProfilePath, cmd)} :
                   CallSh(fullExec, wrapped)
              /\ outcome' = outcome
         ELSE /\ outcome' = Failure("", "write failed")
              /\ pc' = "done"
              /\ UNCHANGED <<shExePath, fullCommand, spawned>>
  /\ UNCHANGED <<executables, probe, output, candidates, platform, isolateApps,
                 exePath, args, fullExec, fnVars>>

\* the child exits with some code
ChildExit ==
  /\ pc = "running"
  /\ \E code \in ExitCodes : outcome' = shOutcome(shExePath, code)
  /\ pc' = "done"
  /\ UNCHANGED <<executables, probe, output, candidates, platform, isolateApps,
                 exePath, args, fullExec, shExePath, fullCommand, spawned, fnVars>>

Next ==
  \/ StartProbes
  \/ \E i \in DOMAIN probe : ProbeDone(i)
  \/ Rank
  \/ Launch
  \/ PlutilExit
  \/ SandboxWritten
  \/ ChildExit

Init == LaunchInit /\ FnIdle

Spec == Init /\ [][Next]_vars

-----------------------------------------------------------------------------
(* computeWeight taken alone, on lists long enough to fill the queue *)

ProbeLists ==
  {[i \in 1..n |-> "game" \o ToString(i) \o ".exe"] : n \in 0..MaxProbes}

WeightInit ==
  /\ executables \in ProbeLists
  /\ pc = "start"
  /\ probe = <<>>
  /\ output = <<>>
  /\ candidates = <<>>
  /\ platform = ""
  /\ isolateApps = FALSE
  /\ exePath = ""
  /\ args = <<>>
  /\ fullExec = ""
  /\ shExePath = ""
  /\ fullCommand = ""
  /\ spawned = NoSpawn
  /\ outcome = NoOutcome
  /\ FnIdle

WeightNext ==
  \/ StartProbes
  \/ \E i \in DOMAIN probe : ProbeDone(i)

SpecWeight == WeightInit /\ [][WeightNext]_vars

-----------------------------------------------------------------------------
(* Properties of launch *)

Ranked == pc = "ranked"

\* x is at least as good a choice as y: lower depth, then higher score,
\* then higher weight
Beats(x, y) ==
  \/ x.depth < y.depth
  \/ x.depth = y.depth /\ x.score > y.score
  \/ x.depth = y.depth /\ x.score = y.score /\ x.weight >= y.weight

\* C1: after the three sorts the head of candidates has the minimum depth of
\* all survivors, among the survivors of that depth the maximum score, and
\* among those the maximum weight.
C1_HeadIsBest ==
  Ranked => \A k \in DOMAIN candidates : Beats(candidates[1], candidates[k])

\* a ranking in which the head is neither the heaviest nor the best scored
\* survivor, and some survivor is deeper than the head
C1_HeadChosenByDepth ==
  /\ Ranked
  /\ Len(candidates) >= 3
  /\ \E k \in DOMAIN candidates : candidates[k].weight > candidates[1].weight
  /\ \E k \in DOMAIN candidates : candidates[k].score > candidates[1].score
  /\ \E k \in DOMAIN candidates : candidates[k].depth > candidates[1].depth
  /\ \E k \in DOMAIN candidates :
       /\ candidates[k].depth = candidates[1].depth
       /\ candidates[k].score < candidates[1].score
       /\ candidates[k].weight > candidates[1].weight

\* C2: two survivors with identical weight, score and depth are ranked in
\* the order they have in cave.executables, whatever order the stat probes
\* completed in.
C2_StableToInstallRecord ==
  Ranked =>
    \A p, q \in DOMAIN candidates :
      ( /\ p < q
        /\ candidates[p].weight = candidates[q].weight
        /\ candidates[p].score = candidates[q].score
        /\ candidates[p].depth = candidates[q].depth )
      => candidates[p].idx < candidates[q].idx

Spawned == spawned # NoSpawn

\* the head of the ranking is what launch took: its joined path is the
\* executable, or the jar handed to java
HeadChosen ==
  /\ Len(candidates) > 0
  /\ \E plan \in {planOf(candidates[1].path)} :
       \/ exePath = plan.chosen
       \/ exePath = "java" /\ args = <<"-jar", plan.chosen>>

HeadSpawned == HeadChosen /\ Spawned

NoExecutablesFailure ==
  /\ Len(candidates) = 0
  /\ outcome.kind = "error"
  /\ outcome.reason = "game.install.no_executables_found"
  /\ ~Spawned

\* the lookup of the bundle's executable or the write of the sandbox profile
\* failed: the launch ends with that error and nothing was spawned
BundleSetupFailure ==
  /\ HeadChosen
  /\ platform = "darwin"
  /\ isAppBundle(exePath)
  /\ outcome.kind = "error"
  /\ outcome.reason = ""
  /\ ~Spawned

\* C5: a launch that has ended either chose the ranked head and spawned a
\* child for it, or had no survivor and failed with the reason code
\* game.install.no_executables_found without spawning anything.
C5_SpawnOrNoExecutables ==
  pc = "done" => HeadSpawned \/ NoExecutablesFailure

\* C5, with the app bundle exception: a launch that has ended chose the
\* ranked head and spawned a child for it, or had no survivor and failed with
\* the reason code without spawning, or chose a darwin app bundle whose
\* set-up failed and ended with that error without spawning.
C5_SpawnOrNoExecutablesOrSetupFailure ==
  /\ pc = "done" => HeadSpawned \/ NoExecutablesFailure \/ BundleSetupFailure
  /\ Spawned => HeadChosen
  /\ (pc \in {"ranked", "start", "weighing"}) => ~Spawned

\* a launch has ended on the failed set-up of the app bundle it chose among
\* several survivors
C5_EndedOnSetupFailure ==
  /\ pc = "done"
  /\ Len(candidates) >= 2
  /\ BundleSetupFailure

\* C6: when the child has exited there is exactly one outcome: success for
\* exit code 0, and for any other code a Crash carrying that code and the
\* path of the executable that was selected for launch.
C6_ExitDeterminesOutcome ==
  (pc = "done" /\ Spawned) =>
    /\ outcome.kind \in {"ok", "crash"}
    /\ outcome.kind = "ok" <=> outcome.code = 0
    /\ outcome.kind = "crash" =>
         /\ outcome.code \in ExitCodes \ {0}
         /\ outcome.exePath \in {planOf(candidates[1].path).chosen, fullExec}

Isolated == platform = "darwin" /\ isolateApps /\ Spawned

\* C7: with isolation enabled for a darwin app bundle, the command line
\* given to sh is sandbox-exec -f <quoted profile path> <quoted resolved
\* executable> <quoted args>, and nothing follows the wrapped command.
C7_SandboxCommandExact ==
  Isolated =>
    \E wrapped \in {"sandbox-exec -f " \o escape(sandboxProfilePath) \o SP
                      \o escape(fullExec)} :
      fullCommand \in {wrapped, wrapped \o SP \o argStringOf(args)}

\* C9: a chosen .jar is spawned as java with arguments -jar and the joined
\* jar path; any other chosen path is spawned as the chosen executable.
C9_JavaForJarOnly ==
  Spawned =>
    \E chosen \in {planOf(candidates[1].path).chosen} :
      IF isJar(chosen)
        THEN spawned.command = "java" /\ spawned.args = <<"-jar", chosen>>
        ELSE spawned.command = chosen

-----------------------------------------------------------------------------
(* Properties of computeWeight *)

Weighing == pc = "weighing"

InOutput(i) == {k \in DOMAIN output : output[k].idx = i}

\* C10: whatever the interleaving of the probes, computeWeight runs to its
\* end, and its output holds exactly the candidates whose probe succeeded,
\* each once, with the probed size as weight; a failed probe adds nothing
\* and removes nothing.
C10_OutputIsSucceededProbes ==
  Weighing =>
    /\ \A i \in DOMAIN probe :
         /\ probe[i].st = "ok" =>
              /\ Cardinality(InOutput(i)) = 1
              /\ \A k \in InOutput(i) :
                   /\ output[k].path = executables[i]
                   /\ output[k].weight = probe[i].size
         /\ probe[i].st # "ok" => InOutput(i) = {}
    /\ \A k \in DOMAIN output : output[k].idx \in DOMAIN probe
    /\ ~AllProbed => \E i \in DOMAIN probe : probe[i].st = "inflight"
    /\ Cardinality({i \in DOMAIN probe : probe[i].st = "inflight"}) <= Concurrency

\* computeWeight has ended on a list longer than the concurrency cap, with a
\* failed probe, an empty file kept, and an output in completion order
C10_QueueDrained ==
  /\ Weighing
  /\ AllProbed
  /\ Len(executables) > Concurrency
  /\ \E i \in DOMAIN probe : probe[i].st = "failed"
  /\ \E k \in DOMAIN output : output[k].weight = 0
  /\ \E k \in DOMAIN output : k > 1 /\ output[k].idx < output[k - 1].idx

====
